---- MODULE Spec2Model ----
(***************************************************************************)
(* llm-elasticsearch-cache: ElasticsearchCache (lookup / update / clear),  *)
(* ElasticsearchStore (mget / mset / mdelete / yield_keys) and the index   *)
(* provisioning of _manage_index, over a model of the Elasticsearch        *)
(* backend the client calls reach.                                         *)
(*                                                                         *)
(* Backend model.  The configured name es_index resolves to nothing, to a  *)
(* concrete index or to an alias.  An index is named by the rank of its    *)
(* name in lexicographic order, 1..MaxIdx: the concrete index of index     *)
(* mode has rank 1, the indices an alias rolls over have ranks 1..MaxIdx.  *)
(* Every index keeps two views of its documents: docs, the realtime view   *)
(* that get / mget / index / bulk work on, and visible, the view as of the *)
(* last refresh, which search and delete_by_query work on.                 *)
(***************************************************************************)
EXTENDS Integers, Sequences, FiniteSets, TLC

VARIABLES
    kind,         \* what es_index resolves to: "none", "index" or "alias"
    members,      \* the indices behind the name: the alias's, or {1} for an index
    write_index,  \* the member an alias routes writes to
    docs,         \* docs[m][id]: realtime document of index m, or NoDoc
    visible,      \* visible[m][id]: document as of the last refresh of m
    pending,      \* {<<m, id>>}: written or deleted in m since its last refresh
    cls,          \* the class of the instance: "cache" or "store"
    pc,           \* position of the instance: constructor steps, "ready", "failed"
    cfg,          \* the constructor's keyword arguments kept on self
    is_alias,     \* self._is_alias (FALSE while _manage_index has not assigned it)
    op,           \* the public call running or last finished: [name, args]
    calls,        \* backend calls that call has issued, in order
    ret,          \* what it returned or raised
    log,          \* messages that call gave to self._logger.error
    nwrites,      \* writing calls (update, clear, mset, mdelete) made so far
    hist          \* per document id: what the caller has done to it so far

backend == <<kind, members, write_index, docs, visible, pending>>
instance == <<cls, pc, cfg, is_alias>>
vars == <<kind, members, write_index, docs, visible, pending,
          cls, pc, cfg, is_alias, op, calls, ret, log, hist, nwrites>>

----------------------------------------------------------------------------
(* Bounds and inputs *)

MaxIdx == 2
MaxKeys == 2
MaxWrites == 2

Indices == 1..MaxIdx

\* datetime.now().isoformat(): the model tells no two instants apart
Timestamps == {"2024-01-01T00:00:00"}

\* LLM generations and the result lists (RETURN_VAL_TYPE) a caller stores
Generations == {"G1", "G2"}
Results == {<<"G1">>, <<"G2", "G1">>}

\* (prompt, llm_string) pairs a caller asks about; the first two concatenate
\* to the same string
Requests == {<<"a", "bc">>, <<"ab", "c">>, <<"b", "c">>}

None == [tag |-> "None", val |-> <<>>]
Value(v) == [tag |-> "value", val |-> v]
Raise(e) == [tag |-> "raise", val |-> <<e>>]
Running == [tag |-> "running", val |-> <<>>]

\* an exception that carries data (BulkIndexError.errors)
RaiseWith(e, info) == [tag |-> "raise", val |-> <<e, info>>]

NoDoc == <<>>
NoMeta == [tag |-> "None"]
Meta == [tag |-> "dict", project |-> "test_project"]

----------------------------------------------------------------------------
(* Pure functions of the client *)

\* hashlib.md5(s.encode()).hexdigest(), taken as injective on its input
md5(s) == <<"md5", s>>

\* ElasticsearchCache._key
Key(prompt, llm_string) == md5(prompt \o llm_string)

CacheIds == {Key(r[1], r[2]) : r \in Requests}

\* langchain_core.load.dumps / loads on one generation
dumps(item) == <<"json", item>>
loads(s) == s[2]

\* a stored entry that is not the JSON of a serialized object, and whether
\* loads accepts an entry (json.loads raises JSONDecodeError otherwise)
Malformed == <<"text", "not json">>
Loadable(s) == s[1] = "json"

\* ElasticsearchCache.mapping
CacheMapping ==
    [mappings |-> [properties |->
        {"llm_output", "llm_params", "llm_input", "metadata", "timestamp"}]]

\* mutant of build_document: llm_params is stored whatever the setting
build_document_AlwaysParams(self, prompt, llm_string, return_val, now) ==
    LET fields == {"llm_output", "llm_params"}
                  \cup (IF self.metadata.tag # "None" THEN {"metadata"} ELSE {})
                  \cup (IF self.store_input THEN {"llm_input"} ELSE {})
                  \cup (IF self.store_timestamp THEN {"timestamp"} ELSE {})
    IN  [f \in fields |->
            CASE f = "llm_output" ->
                    [i \in 1..Len(return_val) |-> dumps(return_val[i])]
              [] f = "llm_params" -> llm_string
              [] f = "metadata" -> self.metadata
              [] f = "llm_input" -> prompt
              [] f = "timestamp" -> now]

\* ElasticsearchCache.build_document; now is datetime.now().isoformat()
build_document(self, prompt, llm_string, return_val, now) ==
    LET fields == {"llm_output"}
                  \cup (IF self.store_input_params THEN {"llm_params"} ELSE {})
                  \cup (IF self.metadata.tag # "None" THEN {"metadata"} ELSE {})
                  \cup (IF self.store_input THEN {"llm_input"} ELSE {})
                  \cup (IF self.store_timestamp THEN {"timestamp"} ELSE {})
    IN  [f \in fields |->
            CASE f = "llm_output" ->
                    [i \in 1..Len(return_val) |-> dumps(return_val[i])]
              [] f = "llm_params" -> llm_string
              [] f = "metadata" -> self.metadata
              [] f = "llm_input" -> prompt
              [] f = "timestamp" -> now]

\* ElasticsearchStore: the namespace argument, the item keys and the vectors a
\* caller uses; namespace "k" with key "" concatenates like key "k" alone
NoNamespace == [tag |-> "None", val |-> ""]
Namespace(n) == [tag |-> "str", val |-> n]
Namespaces == {NoNamespace, Namespace("k")}
ItemKeys == {"", "k"}
Vectors == {<<1, 2>>, <<3>>}

StoreConfigs ==
    {[store_input |-> TRUE, store_timestamp |-> TRUE,
      namespace |-> ns, metadata |-> NoMeta] : ns \in Namespaces}

\* (self._namespace or "")
NamespaceOrEmpty(ns) == IF ns.tag = "None" \/ ns.val = "" THEN "" ELSE ns.val

\* ElasticsearchStore._key
StoreKey(self, input_text) == md5(NamespaceOrEmpty(self.namespace) \o input_text)

StoreIds == {StoreKey(c, k) : c \in StoreConfigs, k \in ItemKeys}

\* ElasticsearchStore.mapping
StoreMapping ==
    [mappings |-> [properties |->
        {"llm_input", "vector_dump", "metadata", "timestamp"}]]

\* ElasticsearchStore.build_document
store_build_document(self, llm_input, vector, now) ==
    LET fields == {"vector_dump"}
                  \cup (IF self.metadata.tag # "None" THEN {"metadata"} ELSE {})
                  \cup (IF self.store_input THEN {"llm_input"} ELSE {})
                  \cup (IF self.store_timestamp THEN {"timestamp"} ELSE {})
    IN  [f \in fields |->
            CASE f = "vector_dump" -> vector
              [] f = "metadata" -> self.metadata
              [] f = "llm_input" -> llm_input
              [] f = "timestamp" -> now]

----------------------------------------------------------------------------
(* The Elasticsearch backend, as the client's calls see it *)

AllIds == CacheIds \cup StoreIds

\* the concrete indices a request on the name es_index reaches
TargetIndices == IF kind = "none" THEN {} ELSE members

\* the index a write on the name es_index lands in
WriteTarget == write_index

\* _source filtering (source= / source_includes=)
Project(body, includes) == [f \in (DOMAIN body) \cap includes |-> body[f]]

Hit(m, id, body, includes) ==
    [_index |-> m, _id |-> id, _source |-> Project(body, includes)]

\* Elasticsearch.get: realtime read of one document through the name.  A name
\* that is an alias of several indices cannot serve a single-document read.
EsGet(id, includes) ==
    IF kind = "none" THEN Raise("NotFoundError")
    ELSE IF Cardinality(members) > 1 THEN Raise("BadRequestError")
    ELSE LET m == CHOOSE x \in members : TRUE
         IN  IF docs[m][id] = NoDoc THEN Raise("NotFoundError")
             ELSE Value(Hit(m, id, docs[m][id], includes))

\* sequences of n distinct elements of S
Arrangements(S, n) ==
    {s \in [1..n -> S] : \A i, j \in 1..n : i # j => s[i] # s[j]}

Min(a, b) == IF a < b THEN a ELSE b

\* Elasticsearch.search for documents whose _id is in ids: the set of the
\* responses the backend may give.  Search reads the refreshed view of every
\* index behind the name, reports the total and returns at most `size` hits
\* in an order of its own.
EsSearch(ids, size, includes) ==
    LET matching == {x \in TargetIndices \X ids : visible[x[1]][x[2]] # NoDoc}
        n == Min(size, Cardinality(matching))
    IN  {[total |-> Cardinality(matching),
          hits |-> [i \in 1..n |->
                      Hit(s[i][1], s[i][2], visible[s[i][1]][s[i][2]], includes)]]
         : s \in Arrangements(matching, n)}

\* size of a search response when the request names none
DefaultSize == 10

Refreshed(m, newdocs) ==
    /\ visible' = [visible EXCEPT ![m] = newdocs[m]]
    /\ pending' = {x \in pending : x[1] # m}

\* Elasticsearch.index: create or replace one document by id (an upsert)
\* mutant of EsIndex: a document that exists is kept (op_type create)
EsIndex_KeepFirst(id, body, require_alias, refresh) ==
    LET m == WriteTarget
    IN  /\ docs' = [docs EXCEPT ![m][id] = IF @ = NoDoc THEN body ELSE @]
        /\ IF refresh
           THEN Refreshed(m, docs')
           ELSE /\ visible' = visible
                /\ pending' = pending \cup {<<m, id>>}

EsIndex(id, body, require_alias, refresh) ==
    LET m == WriteTarget
    IN  /\ docs' = [docs EXCEPT ![m][id] = body]
        /\ IF refresh
           THEN Refreshed(m, docs')
           ELSE /\ visible' = visible
                /\ pending' = pending \cup {<<m, id>>}

\* Elasticsearch.delete_by_query with match_all and refresh=True: deletes the
\* documents of the refreshed view by internal version; a document rewritten
\* since is a version conflict, which is kept and fails the request (conflicts
\* default to abort).  The indices involved are refreshed when it is over.
DbqSnapshot == {x \in TargetIndices \X AllIds : visible[x[1]][x[2]] # NoDoc}
DbqConflicts == DbqSnapshot \cap pending

EsDeleteByQuery ==
    LET gone == DbqSnapshot \ DbqConflicts
        after == [m \in Indices |-> [id \in AllIds |->
                    IF <<m, id>> \in gone THEN NoDoc ELSE docs[m][id]]]
    IN  /\ docs' = after
        /\ visible' = [m \in Indices |->
                          IF m \in TargetIndices THEN after[m] ELSE visible[m]]
        /\ pending' = {x \in pending : x[1] \notin TargetIndices}

\* Elasticsearch.mget: realtime read of the documents of ids, in the order of
\* ids.  Through an alias of several indices every entry is an error entry
\* without a "found" field.
EsMget(ids, includes) ==
    IF kind = "none" THEN Raise("NotFoundError")
    ELSE IF Cardinality(members) > 1
    THEN Value([i \in 1..Len(ids) |-> [_id |-> ids[i], error |-> "illegal_argument"]])
    ELSE LET m == CHOOSE x \in members : TRUE
         IN  Value([i \in 1..Len(ids) |->
                      IF docs[m][ids[i]] = NoDoc
                      THEN [_index |-> m, _id |-> ids[i], found |-> FALSE]
                      ELSE [_index |-> m, _id |-> ids[i], found |-> TRUE,
                            _source |-> Project(docs[m][ids[i]], includes)]])

\* one failed action as helpers.bulk reports it in BulkIndexError.errors:
\* {op: {"_id": id, "status": status, "error": {"reason": reason}}}; a delete of
\* a missing document fails with status 404 and carries no "error"
BulkError(action, status, reason) ==
    [op |-> action._op_type, _id |-> action._id, status |-> status, reason |-> reason]

NoReason == "<no error>"

\* mutant of Indexed: an index action leaves an existing document as it is
Indexed_KeepOld(old, source) == IF old = NoDoc THEN source ELSE old

\* mutant of Indexed: an index action on an existing document removes it
Indexed_Toggled(old, source) == IF old = NoDoc THEN source ELSE NoDoc

\* the document of an id after an index action: the action's _source, in
\* place of whatever was there
Indexed(old, source) == source

\* elasticsearch.helpers.bulk(client, actions, index=, require_alias=,
\* refresh=): the actions are applied one by one to the index the name writes
\* to, each on its own; rejected is the position of an action the backend
\* rejects (0: none).  Yields the documents afterwards and the failed actions.
RECURSIVE BulkApply(_, _, _, _, _)
BulkApply(actions, i, d, require_alias, rejected) ==
    IF i > Len(actions) THEN [docs |-> d, errors |-> <<>>]
    ELSE LET a == actions[i]
             m == WriteTarget
             failed ==
                IF require_alias /\ kind # "alias"
                THEN <<BulkError(a, 404, "index_not_found_exception")>>
                ELSE IF i = rejected
                THEN <<BulkError(a, 400, "rejected")>>
                ELSE IF a._op_type = "delete" /\ d[m][a._id] = NoDoc
                THEN <<BulkError(a, 404, NoReason)>>
                ELSE <<>>
             dd == IF failed # <<>> THEN d
                   ELSE IF a._op_type = "index"
                   THEN [d EXCEPT ![m][a._id] = Indexed(d[m][a._id], a._source)]
                   ELSE [d EXCEPT ![m][a._id] = NoDoc]
             rest == BulkApply(actions, i + 1, dd, require_alias, rejected)
         IN  [docs |-> rest.docs, errors |-> failed \o rest.errors]

EsBulk(actions, require_alias, refresh, rejected) ==
    LET out == BulkApply(actions, 1, docs, require_alias, rejected)
    IN  /\ docs' = out.docs
        /\ IF refresh /\ actions # <<>>
           THEN Refreshed(WriteTarget, out.docs)
           ELSE UNCHANGED <<visible, pending>>

----------------------------------------------------------------------------
(* History kept for the properties: what the caller did to each id *)

Never == [st |-> "never", val |-> <<>>, n |-> 0]

HistWrite(h, id, v) ==
    [h EXCEPT ![id] = [st |-> "written", val |-> v,
                       n |-> IF h[id].st = "written" THEN Min(h[id].n + 1, 2) ELSE 1]]

HistCleared(h) ==
    [id \in DOMAIN h |->
        IF h[id].st = "written" THEN [st |-> "cleared", val |-> <<>>, n |-> 0]
        ELSE h[id]]

HistUnknown(h) == [id \in DOMAIN h |-> [st |-> "unknown", val |-> <<>>, n |-> 0]]

\* a bulk that returned: its actions in order; a bulk that raised: the ids of
\* its actions are in an unknown state
RECURSIVE HistBulk(_, _, _)
HistBulk(h, actions, i) ==
    IF i > Len(actions) THEN h
    ELSE LET a == actions[i]
         IN  HistBulk(IF a._op_type = "index"
                      THEN HistWrite(h, a._id, a._source.vector_dump)
                      ELSE [h EXCEPT ![a._id] = [st |-> "deleted", val |-> <<>>, n |-> 0]],
                      actions, i + 1)

HistBulkFailed(h, actions) ==
    [id \in DOMAIN h |->
        IF \E i \in 1..Len(actions) : actions[i]._id = id
        THEN [st |-> "unknown", val |-> <<>>, n |-> 0]
        ELSE h[id]]

----------------------------------------------------------------------------
(* Construction: __init__ and _manage_index, one backend call per step *)

Idle == [name |-> "idle", args |-> <<>>]

CacheConfigs ==
    {[store_input |-> TRUE, store_timestamp |-> TRUE,
      store_input_params |-> TRUE, metadata |-> NoMeta]}

Mapping == IF cls = "cache" THEN CacheMapping ELSE StoreMapping

\* one backend call: the API, its keyword arguments and how it answered
Call(api, kwargs, resp) == [api |-> api, kwargs |-> kwargs, resp |-> resp]

Bool(b) == IF b THEN "True" ELSE "False"

\* the call ended in an exception (resp is then its name)
Raised(c) == c.resp \notin {"ok", "True", "False"}

\* ElasticsearchCache.__init__ / ElasticsearchStore.__init__: keep the
\* arguments, then run _manage_index
Construct(c) ==
    /\ c \in (IF cls = "cache" THEN CacheConfigs ELSE StoreConfigs)
    /\ pc \in {"none", "ready", "failed"}
    /\ pc' = "ping"
    /\ cfg' = c
    /\ is_alias' = FALSE
    /\ op' = [name |-> "__init__", args |-> <<>>]
    /\ calls' = <<>>
    /\ ret' = Running
    /\ log' = <<>>
    /\ UNCHANGED <<backend, cls, hist, nwrites>>

\* mutant of AfterPing: the answer of ping() is ignored
AfterPing_Ignored(up) == "exists_alias"

\* where _manage_index goes after ping() answered `up`
AfterPing(up) == IF up THEN "exists_alias" ELSE "failed"

\* if not self._es_client.ping(): raise ConnectionError; self._is_alias = False
ManagePing(up) ==
    /\ pc = "ping"
    /\ calls' = Append(calls, Call("ping", <<>>, Bool(up)))
    /\ pc' = AfterPing(up)
    /\ IF pc' = "failed"
       THEN ret' = Raise("ConnectionError") /\ UNCHANGED is_alias
       ELSE is_alias' = FALSE /\ UNCHANGED ret
    /\ UNCHANGED log
    /\ UNCHANGED <<backend, cls, cfg, op, hist, nwrites>>

\* a backend call of _manage_index that raises ends the constructor
ManageRaises(at, api, kwargs) ==
    /\ pc = at
    /\ calls' = Append(calls, Call(api, kwargs, "ApiError"))
    /\ pc' = "failed"
    /\ ret' = Raise("ApiError")
    /\ UNCHANGED log
    /\ UNCHANGED <<backend, cls, cfg, is_alias, op, hist, nwrites>>

\* where _manage_index goes after exists_alias(name=es_index) answered
AfterExistsAlias(answer) == IF answer THEN "put_mapping" ELSE "exists"

\* mutant of AliasFlag: the flag stays False
AliasFlag_Never(answer) == FALSE

\* self._is_alias once exists_alias answered: False was assigned before the
\* call, True is assigned when the answer is true
AliasFlag(answer) == IF answer THEN TRUE ELSE FALSE

\* if self._es_client.indices.exists_alias(name=self._es_index): self._is_alias = True
ManageExistsAlias ==
    /\ pc = "exists_alias"
    /\ LET answer == (kind = "alias")
       IN  /\ calls' = Append(calls,
                       Call("exists_alias", [name |-> "es_index"], Bool(answer)))
           /\ pc' = AfterExistsAlias(answer)
           /\ is_alias' = AliasFlag(answer)
    /\ UNCHANGED <<backend, cls, cfg, op, ret, log, hist, nwrites>>

\* mutant of AfterExists: the test of the answer is inverted
AfterExists_Inverted(answer) == IF answer THEN "create" ELSE "put_mapping"

\* where _manage_index goes after exists(index=es_index) answered
AfterExists(answer) == IF ~answer THEN "create" ELSE "put_mapping"

\* elif not self._es_client.indices.exists(index=self._es_index)
ManageExists ==
    /\ pc = "exists"
    /\ calls' = Append(calls,
                  Call("exists", [index |-> "es_index"], Bool(kind # "none")))
    /\ pc' = AfterExists(kind # "none")
    /\ UNCHANGED <<backend, cls, cfg, is_alias, op, ret, log, hist, nwrites>>

\* indices.create(index=es_index, body=self.mapping); return
ManageCreate ==
    /\ pc = "create"
    /\ calls' = Append(calls,
                  Call("create", [index |-> "es_index", body |-> Mapping],
                       IF kind = "none" THEN "ok" ELSE "BadRequestError"))
    /\ IF kind = "none"
       THEN /\ kind' = "index"
            /\ members' = {1}
            /\ write_index' = 1
            /\ pc' = "ready"
            /\ ret' = None
       ELSE \* resource_already_exists_exception
            /\ pc' = "failed"
            /\ ret' = Raise("BadRequestError")
            /\ UNCHANGED <<kind, members, write_index>>
    /\ UNCHANGED <<docs, visible, pending, cls, cfg, is_alias, op, log, hist, nwrites>>

\* indices.put_mapping(index=es_index, body=self.mapping["mappings"])
ManagePutMapping ==
    /\ pc = "put_mapping"
    /\ calls' = Append(calls,
                  Call("put_mapping",
                       [index |-> "es_index", body |-> Mapping.mappings], "ok"))
    /\ pc' = "ready"
    /\ ret' = None
    /\ UNCHANGED <<backend, cls, cfg, is_alias, op, log, hist, nwrites>>

----------------------------------------------------------------------------
(* ElasticsearchCache: lookup, update, clear *)

\* max(hits, key=itemgetter("_index")): the first hit of greatest index name
RECURSIVE MaxByIndex(_)
MaxByIndex(hits) ==
    IF Len(hits) = 1 THEN hits[1]
    ELSE LET rest == MaxByIndex(Tail(hits))
         IN  IF rest._index > hits[1]._index THEN rest ELSE hits[1]

\* mutant of LoadOutput: the items come back in reverse order
LoadOutput_Reversed(record) ==
    LET out == record._source.llm_output
    IN  [i \in 1..Len(out) |-> loads(out[Len(out) + 1 - i])]

\* [loads(item) for item in record["_source"]["llm_output"]]
LoadOutput(record) ==
    LET out == record._source.llm_output
    IN  [i \in 1..Len(out) |-> loads(out[i])]

\* mutant of Loaded: entries that do not load are left out
Loaded_Skipping(record) ==
    LET ok == SelectSeq(record._source.llm_output, Loadable)
    IN  Value([i \in 1..Len(ok) |-> loads(ok[i])])

\* the list comprehension as a whole: the first loads that raises ends it
Loaded(record) ==
    IF \A i \in 1..Len(record._source.llm_output) :
          Loadable(record._source.llm_output[i])
    THEN Value(LoadOutput(record))
    ELSE Raise("JSONDecodeError")

\* lookup, alias branch: what it returns on the search response resp
LookupAlias(resp) ==
    IF resp.total > 0
    THEN Loaded(MaxByIndex(resp.hits))
    ELSE None

\* mutant of LookupIndex: NotFoundError is not caught
LookupIndex_Uncaught(got) ==
    IF got.tag = "raise" THEN got ELSE Loaded(got.val)

\* lookup, index branch: what it returns on the outcome got of get()
LookupIndex(got) ==
    IF got.tag = "raise"
    THEN IF got = Raise("NotFoundError") THEN None ELSE got
    ELSE Loaded(got.val)

lookup(prompt, llm_string) ==
    /\ pc = "ready" /\ cls = "cache"
    /\ op' = [name |-> "lookup", args |-> <<prompt, llm_string>>]
    /\ log' = <<>>
    /\ LET cache_key == Key(prompt, llm_string)
       IN  IF is_alias
           THEN /\ calls' = <<Call("search",
                                   [index |-> "es_index", term_id |-> cache_key,
                                    source_includes |-> {"llm_output"}], "ok")>>
                /\ \E resp \in EsSearch({cache_key}, DefaultSize, {"llm_output"}) :
                       ret' = LookupAlias(resp)
           ELSE LET got == EsGet(cache_key, {"llm_output"})
                IN  /\ calls' = <<Call("get",
                                       [index |-> "es_index", id |-> cache_key,
                                        source |-> {"llm_output"}],
                                       IF got.tag = "raise" THEN got.val[1] ELSE "ok")>>
                    /\ ret' = LookupIndex(got)
    /\ UNCHANGED <<backend, instance, hist, nwrites>>

\* the keyword arguments update passes to Elasticsearch.index
UpdateKwargs(id, body) == [index |-> "es_index", id |-> id, body |-> body]

update(prompt, llm_string, return_val, now) ==
    /\ pc = "ready" /\ cls = "cache"
    /\ nwrites < MaxWrites /\ nwrites' = nwrites + 1
    /\ op' = [name |-> "update", args |-> <<prompt, llm_string, return_val>>]
    /\ LET body == build_document(cfg, prompt, llm_string, return_val, now)
           kw == UpdateKwargs(Key(prompt, llm_string), body)
       IN  /\ calls' = <<Call("index", kw, "ok")>>
           /\ EsIndex(kw.id, kw.body,
                      "require_alias" \in DOMAIN kw /\ kw.require_alias,
                      "refresh" \in DOMAIN kw /\ kw.refresh)
    /\ ret' = None
    /\ log' = <<>>
    /\ hist' = HistWrite(hist, Key(prompt, llm_string), return_val)
    /\ UNCHANGED <<kind, members, write_index, instance>>

clear ==
    /\ pc = "ready" /\ cls = "cache"
    /\ nwrites < MaxWrites /\ nwrites' = nwrites + 1
    /\ op' = [name |-> "clear", args |-> <<>>]
    /\ log' = <<>>
    /\ calls' = <<Call("delete_by_query",
                       [index |-> "es_index", query |-> "match_all",
                        refresh |-> TRUE, wait_for_completion |-> TRUE],
                       IF DbqConflicts = {} THEN "ok" ELSE "ConflictError")>>
    /\ EsDeleteByQuery
    /\ IF DbqConflicts = {}
       THEN ret' = None /\ hist' = HistCleared(hist)
       ELSE ret' = Raise("ConflictError") /\ hist' = HistUnknown(hist)
    /\ UNCHANGED <<kind, members, write_index, instance>>

----------------------------------------------------------------------------
(* ElasticsearchStore: mget, mset, mdelete, yield_keys *)

\* any(keys): some key is a non-empty string
any(keys) == \E i \in 1..Len(keys) : keys[i] # ""

\* map_ids = {r["_id"]: r["_source"]["vector_dump"] for r in hits};
\* map_ids.get(id): the vector of the last hit of that id, None without one
RECURSIVE MapIdsGet(_, _)
MapIdsGet(hits, id) ==
    IF hits = <<>> THEN None
    ELSE LET last == hits[Len(hits)]
         IN  IF last._id = id THEN Value(last._source.vector_dump)
             ELSE MapIdsGet(SubSeq(hits, 1, Len(hits) - 1), id)

\* mget, alias branch: what it returns on the search response resp
MgetAlias(cache_keys, resp) ==
    Value([i \in 1..Len(cache_keys) |-> MapIdsGet(resp.hits, cache_keys[i])])

\* mget, index branch: what it returns on the outcome got of Elasticsearch.mget
MgetIndex(got) ==
    IF got.tag = "raise" THEN got
    ELSE IF \E i \in 1..Len(got.val) : "found" \notin DOMAIN got.val[i]
    THEN Raise("KeyError")
    ELSE Value([i \in 1..Len(got.val) |->
                  IF got.val[i].found THEN Value(got.val[i]._source.vector_dump)
                  ELSE None])

\* what mget returns before any backend call: [] when no key is truthy
MgetEarly(keys) == ~any(keys)

mget(keys) ==
    /\ pc = "ready" /\ cls = "store"
    /\ op' = [name |-> "mget", args |-> <<keys>>]
    /\ log' = <<>>
    /\ IF MgetEarly(keys)
       THEN calls' = <<>> /\ ret' = Value(<<>>)
       ELSE LET cache_keys == [i \in 1..Len(keys) |-> StoreKey(cfg, keys[i])]
            IN  IF is_alias
                THEN /\ calls' = <<Call("search",
                                        [index |-> "es_index", ids |-> cache_keys,
                                         size |-> Len(cache_keys),
                                         source_includes |-> {"vector_dump"}], "ok")>>
                     /\ \E resp \in EsSearch({cache_keys[i] : i \in 1..Len(cache_keys)},
                                              Len(cache_keys), {"vector_dump"}) :
                            ret' = MgetAlias(cache_keys, resp)
                ELSE LET got == EsMget(cache_keys, {"vector_dump"})
                     IN  /\ calls' = <<Call("mget",
                                            [index |-> "es_index", ids |-> cache_keys,
                                             source_includes |-> {"vector_dump"}],
                                            IF got.tag = "raise" THEN got.val[1] ELSE "ok")>>
                         /\ ret' = MgetIndex(got)
    /\ UNCHANGED <<backend, instance, hist, nwrites>>

\* except BulkIndexError as e: the reason _bulk logs for e.errors[0]
\* (e.errors[0].get("index", {}).get("error", {}).get("reason"))
FirstErrorReason(errors) ==
    IF errors[1].op = "index" /\ errors[1].reason # NoReason
    THEN errors[1].reason
    ELSE "None"

\* mutant of BulkCalls: a bulk that failed is sent once more
BulkCalls_Again(kw, resp) ==
    IF resp = "ok" THEN <<Call("bulk", kw, resp)>>
    ELSE <<Call("bulk", kw, resp), Call("bulk", kw, resp)>>

\* mutant of BulkCalls: no call is made for an empty batch
BulkCalls_SkipEmpty(kw, resp) ==
    IF kw.actions = <<>> THEN <<>> ELSE <<Call("bulk", kw, resp)>>

\* the backend calls of _bulk: helpers.bulk once, whatever the actions
BulkCalls(kw, resp) == <<Call("bulk", kw, resp)>>

\* ElasticsearchStore._bulk
Bulk(actions, rejected) ==
    LET out == BulkApply(actions, 1, docs, is_alias, rejected)
        kw == [actions |-> actions, index |-> "es_index",
               require_alias |-> is_alias, refresh |-> TRUE]
    IN  /\ EsBulk(actions, kw.require_alias, kw.refresh, rejected)
        /\ IF out.errors = <<>>
           THEN /\ calls' = BulkCalls(kw, "ok")
                /\ ret' = None
                /\ log' = <<>>
                /\ hist' = HistBulk(hist, actions, 1)
           ELSE /\ calls' = BulkCalls(kw, "BulkIndexError")
                /\ ret' = RaiseWith("BulkIndexError", out.errors)
                /\ log' = <<"First bulk error reason: " \o FirstErrorReason(out.errors)>>
                /\ hist' = HistBulkFailed(hist, actions)

\* the actions mset generates for its pairs
MsetActions(self, key_value_pairs, now) ==
    [i \in 1..Len(key_value_pairs) |->
        [_op_type |-> "index",
         _id |-> StoreKey(self, key_value_pairs[i][1]),
         _source |-> store_build_document(self, key_value_pairs[i][1],
                                          key_value_pairs[i][2], now)]]

mset(key_value_pairs, now, rejected) ==
    /\ pc = "ready" /\ cls = "store"
    /\ nwrites < MaxWrites /\ nwrites' = nwrites + 1
    /\ op' = [name |-> "mset", args |-> <<key_value_pairs>>]
    /\ Bulk(MsetActions(cfg, key_value_pairs, now), rejected)
    /\ UNCHANGED <<kind, members, write_index, instance>>

\* mutant of MdeleteActions: a delete action for every key of the namespace
MdeleteActions_Sweep(self, keys) ==
    LET all == IF keys = <<>> THEN <<>>
               ELSE [i \in 1..2 |-> IF i = 1 THEN "" ELSE "k"]
    IN  [i \in 1..Len(all) |->
            [_op_type |-> "delete", _id |-> StoreKey(self, all[i])]]

\* the actions mdelete generates for its keys
MdeleteActions(self, keys) ==
    [i \in 1..Len(keys) |->
        [_op_type |-> "delete", _id |-> StoreKey(self, keys[i])]]

mdelete(keys, rejected) ==
    /\ pc = "ready" /\ cls = "store"
    /\ nwrites < MaxWrites /\ nwrites' = nwrites + 1
    /\ op' = [name |-> "mdelete", args |-> <<keys>>]
    /\ Bulk(MdeleteActions(cfg, keys), rejected)
    /\ UNCHANGED <<kind, members, write_index, instance>>

\* mutant of YieldKeysOutcome: without a prefix there is nothing to list
YieldKeysOutcome_Empty(prefix) ==
    IF prefix = "None" THEN Value(<<>>) ELSE Raise("NotImplementedError")

\* raise NotImplementedError(): yield_keys has no yield statement, so the
\* call itself raises
YieldKeysOutcome(prefix) == Raise("NotImplementedError")

\* prefix is None when omitted
yield_keys(prefix) ==
    /\ pc = "ready" /\ cls = "store"
    /\ op' = [name |-> "yield_keys", args |-> <<prefix>>]
    /\ calls' = <<>>
    /\ ret' = YieldKeysOutcome(prefix)
    /\ log' = <<>>
    /\ UNCHANGED <<backend, instance, hist, nwrites>>

----------------------------------------------------------------------------
(* The environment: refreshes and changes of topology *)

\* an environment step ends the observation of the last finished call
Forget ==
    IF pc = "ready"
    THEN op' = Idle /\ calls' = <<>> /\ ret' = None /\ log' = <<>>
    ELSE UNCHANGED <<op, calls, ret, log>>

\* the periodic refresh of one index
EnvRefresh(m) ==
    /\ \E x \in pending : x[1] = m
    /\ Refreshed(m, docs)
    /\ Forget
    /\ UNCHANGED <<kind, members, write_index, docs, instance, hist, nwrites>>

\* roll-over: a further index joins the alias
EnvAddMember(m) ==
    /\ kind = "alias"
    /\ m \in Indices \ members
    /\ members' = members \cup {m}
    /\ Forget
    /\ UNCHANGED <<kind, write_index, docs, visible, pending, instance, hist, nwrites>>

\* the alias routes writes to another of its members
EnvSetWriteIndex(m) ==
    /\ kind = "alias"
    /\ m \in members \ {write_index}
    /\ write_index' = m
    /\ Forget
    /\ UNCHANGED <<kind, members, docs, visible, pending, instance, hist, nwrites>>

\* the concrete index is renamed and its old name becomes an alias of it
EnvIndexToAlias ==
    /\ kind = "index"
    /\ kind' = "alias"
    /\ Forget
    /\ UNCHANGED <<members, write_index, docs, visible, pending, instance, hist, nwrites>>

----------------------------------------------------------------------------
(* Specification *)

EmptyIndex == [id \in AllIds |-> NoDoc]

InitOf(class) ==
    /\ kind \in {"none", "index", "alias"}
    /\ members \in SUBSET Indices
    /\ write_index \in Indices
    /\ CASE kind = "none" -> members = {} /\ write_index = 1
         [] kind = "index" -> members = {1} /\ write_index = 1
         [] kind = "alias" -> members # {} /\ write_index \in members
    /\ docs = [m \in Indices |-> EmptyIndex]
    /\ visible = docs
    /\ pending = {}
    /\ cls = class
    /\ pc = "none"
    /\ cfg = [tag |-> "None"]
    /\ is_alias = FALSE
    /\ op = Idle
    /\ calls = <<>>
    /\ ret = None
    /\ log = <<>>
    /\ nwrites = 0
    /\ hist = [id \in AllIds |-> Never]

Init == InitOf("cache")

Next ==
    \/ \E c \in CacheConfigs : Construct(c)
    \/ \E up \in BOOLEAN : ManagePing(up)
    \/ ManageExistsAlias
    \/ ManageRaises("exists_alias", "exists_alias", [name |-> "es_index"])
    \/ ManageExists
    \/ ManageRaises("exists", "exists", [index |-> "es_index"])
    \/ ManageCreate
    \/ ManageRaises("create", "create", [index |-> "es_index", body |-> Mapping])
    \/ ManagePutMapping
    \/ ManageRaises("put_mapping", "put_mapping",
                    [index |-> "es_index", body |-> Mapping.mappings])
    \/ \E r \in Requests : lookup(r[1], r[2])
    \/ \E r \in Requests, v \in Results, now \in Timestamps : update(r[1], r[2], v, now)
    \/ clear
    \/ \E m \in Indices : EnvRefresh(m)
    \/ \E m \in Indices : EnvAddMember(m)
    \/ \E m \in Indices : EnvSetWriteIndex(m)
    \/ EnvIndexToAlias

Spec == Init /\ [][Next]_vars

\* the same for an ElasticsearchStore on the name

\* sequences of at most n elements of S
SeqsUpTo(S, n) == UNION {[1..k -> S] : k \in 0..n}

InitStore == InitOf("store")

NextStore ==
    \/ \E c \in StoreConfigs : Construct(c)
    \/ \E up \in BOOLEAN : ManagePing(up)
    \/ ManageExistsAlias
    \/ ManageRaises("exists_alias", "exists_alias", [name |-> "es_index"])
    \/ ManageExists
    \/ ManageRaises("exists", "exists", [index |-> "es_index"])
    \/ ManageCreate
    \/ ManageRaises("create", "create", [index |-> "es_index", body |-> Mapping])
    \/ ManagePutMapping
    \/ ManageRaises("put_mapping", "put_mapping",
                    [index |-> "es_index", body |-> Mapping.mappings])
    \/ \E keys \in SeqsUpTo(ItemKeys, MaxKeys) : mget(keys)
    \/ \E pairs \in SeqsUpTo(ItemKeys \X Vectors, MaxKeys), now \in Timestamps :
          \E rejected \in 0..Len(pairs) : mset(pairs, now, rejected)
    \/ \E keys \in SeqsUpTo(ItemKeys, MaxKeys) :
          \E rejected \in 0..Len(keys) : mdelete(keys, rejected)
    \/ \E prefix \in {"None", "k"} : yield_keys(prefix)
    \/ \E m \in Indices : EnvAddMember(m)
    \/ \E m \in Indices : EnvSetWriteIndex(m)
    \/ EnvIndexToAlias

SpecStore == InitStore /\ [][NextStore]_vars

\* build_document alone, on an instance of either class with every
\* combination of the constructor's settings

AllCacheConfigs ==
    {[store_input |-> i, store_timestamp |-> t,
      store_input_params |-> p, metadata |-> md] :
        i \in BOOLEAN, t \in BOOLEAN, p \in BOOLEAN, md \in {NoMeta, Meta}}

AllStoreConfigs ==
    {[store_input |-> i, store_timestamp |-> t,
      namespace |-> NoNamespace, metadata |-> md] :
        i \in BOOLEAN, t \in BOOLEAN, md \in {NoMeta, Meta}}

InitDoc ==
    /\ kind = "index" /\ members = {1} /\ write_index = 1
    /\ docs = [m \in Indices |-> EmptyIndex]
    /\ visible = docs
    /\ pending = {}
    /\ cls \in {"cache", "store"}
    /\ pc = "ready"
    /\ cfg \in (IF cls = "cache" THEN AllCacheConfigs ELSE AllStoreConfigs)
    /\ is_alias = FALSE
    /\ op = Idle
    /\ calls = <<>>
    /\ ret = None
    /\ log = <<>>
    /\ nwrites = 0
    /\ hist = [id \in AllIds |-> Never]

CacheBuildDocument(prompt, llm_string, return_val, now) ==
    /\ cls = "cache" /\ op = Idle
    /\ op' = [name |-> "build_document", args |-> <<prompt, llm_string, return_val>>]
    /\ ret' = Value(build_document(cfg, prompt, llm_string, return_val, now))
    /\ UNCHANGED <<backend, instance, calls, log, nwrites, hist>>

StoreBuildDocument(llm_input, vector, now) ==
    /\ cls = "store" /\ op = Idle
    /\ op' = [name |-> "build_document", args |-> <<llm_input, vector>>]
    /\ ret' = Value(store_build_document(cfg, llm_input, vector, now))
    /\ UNCHANGED <<backend, instance, calls, log, nwrites, hist>>

NextDoc ==
    \/ \E r \in Requests, return_val \in Results, now \in Timestamps :
          CacheBuildDocument(r[1], r[2], return_val, now)
    \/ \E k \in ItemKeys, v \in Vectors, now \in Timestamps :
          StoreBuildDocument(k, v, now)

SpecDoc == InitDoc /\ [][NextDoc]_vars

\* two cache instances that update one (prompt, llm_string) on one concrete
\* index at the same time, and a third that looks it up.  Here pc, op and ret
\* hold one value per instance, and calls holds the index calls in the order
\* in which the backend applied them, each with the instance that issued it.

Writers == {1, 2}
Reader == 3

InitRace ==
    /\ kind = "index" /\ members = {1} /\ write_index = 1
    /\ docs = [m \in Indices |-> EmptyIndex]
    /\ visible = docs
    /\ pending = {}
    /\ cls = "cache"
    /\ cfg \in CacheConfigs
    /\ is_alias = FALSE
    /\ pc = [w \in Writers \cup {Reader} |-> "ready"]
    /\ \E r \in Requests, R1 \in Results, R2 \in Results :
          /\ R1 # R2
          /\ op = [w \in Writers \cup {Reader} |->
                     IF w = Reader THEN Idle
                     ELSE [name |-> "update",
                           args |-> <<r[1], r[2], IF w = 1 THEN R1 ELSE R2>>]]
    /\ ret = [w \in Writers \cup {Reader} |-> Running]
    /\ calls = <<>>
    /\ log = <<>>
    /\ nwrites = 0
    /\ hist = [id \in AllIds |-> Never]

\* a step of a writer ends what the reader has last observed
ReaderForgets(r) == [r EXCEPT ![Reader] = Running]

\* update of instance w, up to the moment the backend applies its index call
RaceIndexCall(w, now) ==
    /\ pc[w] = "ready"
    /\ pc' = [pc EXCEPT ![w] = "called"]
    /\ LET a == op[w].args
           kw == UpdateKwargs(Key(a[1], a[2]),
                              build_document(cfg, a[1], a[2], a[3], now))
       IN  /\ calls' = Append(calls, [by |-> w, call |-> Call("index", kw, "ok")])
           /\ EsIndex(kw.id, kw.body,
                      "require_alias" \in DOMAIN kw /\ kw.require_alias,
                      "refresh" \in DOMAIN kw /\ kw.refresh)
    /\ ret' = ReaderForgets(ret)
    /\ op' = [op EXCEPT ![Reader] = Idle]
    /\ UNCHANGED <<kind, members, write_index, cls, cfg, is_alias, log, nwrites, hist>>

\* the index call of instance w answers and its update returns
RaceReturn(w) ==
    /\ pc[w] = "called"
    /\ pc' = [pc EXCEPT ![w] = "returned"]
    /\ ret' = [ReaderForgets(ret) EXCEPT ![w] = None]
    /\ op' = [op EXCEPT ![Reader] = Idle]
    /\ UNCHANGED <<backend, cls, cfg, is_alias, calls, log, nwrites, hist>>

\* a lookup by the third instance (index branch: _is_alias is False)
RaceLookup(prompt, llm_string) ==
    /\ op' = [op EXCEPT ![Reader] = [name |-> "lookup", args |-> <<prompt, llm_string>>]]
    /\ ret' = [ret EXCEPT ![Reader] =
                  LookupIndex(EsGet(Key(prompt, llm_string), {"llm_output"}))]
    /\ UNCHANGED <<backend, instance, calls, log, nwrites, hist>>

NextRace ==
    \/ \E w \in Writers, now \in Timestamps : RaceIndexCall(w, now)
    \/ \E w \in Writers : RaceReturn(w)
    \/ \E r \in Requests : RaceLookup(r[1], r[2])

SpecRace == InitRace /\ [][NextRace]_vars

\* a constructed store on a name whose topology stays as it is: the caller
\* repeats one mset, with the same pairs, for as long as it raises, and reads
\* with mget afterwards.  The documents at the start are those an earlier mset
\* that returned has left.

InitRetry ==
    /\ kind \in {"index", "alias"}
    /\ members \in SUBSET Indices
    /\ IF kind = "index" THEN members = {1} ELSE 1 \in members
    /\ write_index = 1
    /\ cls = "store"
    /\ pc = "ready"
    /\ cfg \in StoreConfigs
    /\ is_alias = (kind = "alias")
    /\ \E seed \in SeqsUpTo(ItemKeys \X Vectors, MaxKeys), now \in Timestamps :
          LET actions == MsetActions(cfg, seed, now)
          IN  /\ docs = BulkApply(actions, 1, [m \in Indices |-> EmptyIndex],
                                  is_alias, 0).docs
              /\ hist = HistBulk([id \in AllIds |-> Never], actions, 1)
    /\ visible = docs
    /\ pending = {}
    /\ op = Idle
    /\ calls = <<>>
    /\ ret = None
    /\ log = <<>>
    /\ nwrites = 0

\* mset(pairs): the first call, or the same call again after it raised
RetryMset(key_value_pairs, now, rejected) ==
    /\ \/ nwrites = 0 /\ op = Idle
       \/ op.name = "mset" /\ op.args = <<key_value_pairs>> /\ ret.tag = "raise"
    /\ mset(key_value_pairs, now, rejected)

\* mget once the caller has stopped repeating
RetryMget(keys) ==
    /\ op.name # "mget"
    /\ mget(keys)

NextRetry ==
    \/ \E pairs \in SeqsUpTo(ItemKeys \X Vectors, MaxKeys), now \in Timestamps :
          \E rejected \in 0..Len(pairs) : RetryMset(pairs, now, rejected)
    \/ \E keys \in SeqsUpTo(ItemKeys, MaxKeys) : RetryMget(keys)

SpecRetry == InitRetry /\ [][NextRetry]_vars

\* the operations of a constructed instance of either class, on a concrete
\* index or on an alias that rolls over

InitOps ==
    /\ kind \in {"index", "alias"}
    /\ members \in SUBSET Indices
    /\ write_index \in Indices
    /\ IF kind = "index"
       THEN members = {1} /\ write_index = 1
       ELSE members # {} /\ write_index \in members
    /\ docs = [m \in Indices |-> EmptyIndex]
    /\ visible = docs
    /\ pending = {}
    /\ cls \in {"cache", "store"}
    /\ pc = "ready"
    /\ cfg \in (IF cls = "cache" THEN CacheConfigs ELSE StoreConfigs)
    /\ is_alias = (kind = "alias")
    /\ op = Idle
    /\ calls = <<>>
    /\ ret = None
    /\ log = <<>>
    /\ nwrites = 0
    /\ hist = [id \in AllIds |-> Never]

NextOps ==
    \/ \E r \in Requests : lookup(r[1], r[2])
    \/ \E r \in Requests, v \in Results, now \in Timestamps : update(r[1], r[2], v, now)
    \/ clear
    \/ \E keys \in SeqsUpTo(ItemKeys, MaxKeys) : mget(keys)
    \/ \E pairs \in SeqsUpTo(ItemKeys \X Vectors, MaxKeys), now \in Timestamps :
          \E rejected \in 0..Len(pairs) : mset(pairs, now, rejected)
    \/ \E keys \in SeqsUpTo(ItemKeys, MaxKeys) :
          \E rejected \in 0..Len(keys) : mdelete(keys, rejected)
    \/ \E prefix \in {"None", "k"} : yield_keys(prefix)
    \/ \E m \in Indices : EnvRefresh(m)
    \/ \E m \in Indices : EnvAddMember(m)
    \/ \E m \in Indices : EnvSetWriteIndex(m)

SpecOps == InitOps /\ [][NextOps]_vars

\* lookup over documents that other writers have put under the cache's keys,
\* with entries of llm_output that do not deserialize among them

StoredEntries == {dumps(g) : g \in Generations} \cup {Malformed}

InitLoad ==
    /\ InitOps
    /\ cls = "cache"

\* another client indexes a document under an id, straight into one index
EnvPut(m, id, llm_output) ==
    /\ nwrites < MaxWrites /\ nwrites' = nwrites + 1
    /\ docs' = [docs EXCEPT ![m][id] = [llm_output |-> llm_output]]
    /\ Refreshed(m, docs')
    /\ Forget
    /\ hist' = HistUnknown(hist)
    /\ UNCHANGED <<kind, members, write_index, instance>>

NextLoad ==
    \/ \E m \in Indices, id \in CacheIds, out \in SeqsUpTo(StoredEntries, MaxKeys) :
          EnvPut(m, id, out)
    \/ \E r \in Requests : lookup(r[1], r[2])

SpecLoad == InitLoad /\ [][NextLoad]_vars

\* two instances of one class constructed at the same time on a name that is
\* neither an alias nor an index, the backend being reachable.  Here pc, cfg,
\* is_alias, op, calls and ret hold one value per instance.

Constructors == {1, 2}

InitBoot ==
    /\ kind = "none" /\ members = {} /\ write_index = 1
    /\ docs = [m \in Indices |-> EmptyIndex]
    /\ visible = docs
    /\ pending = {}
    /\ cls \in {"cache", "store"}
    /\ cfg \in [Constructors -> IF cls = "cache" THEN CacheConfigs ELSE StoreConfigs]
    /\ pc = [p \in Constructors |-> "ping"]
    /\ is_alias = [p \in Constructors |-> FALSE]
    /\ op = [p \in Constructors |-> [name |-> "__init__", args |-> <<>>]]
    /\ calls = [p \in Constructors |-> <<>>]
    /\ ret = [p \in Constructors |-> Running]
    /\ log = <<>>
    /\ nwrites = 0
    /\ hist = [id \in AllIds |-> Never]

\* ping() of instance p answers true; self._is_alias = False
BootPing(p) ==
    /\ pc[p] = "ping"
    /\ calls' = [calls EXCEPT ![p] = Append(@, Call("ping", <<>>, Bool(TRUE)))]
    /\ pc' = [pc EXCEPT ![p] = AfterPing(TRUE)]
    /\ is_alias' = [is_alias EXCEPT ![p] = FALSE]
    /\ UNCHANGED <<backend, cls, cfg, op, ret, log, hist, nwrites>>

BootExistsAlias(p) ==
    /\ pc[p] = "exists_alias"
    /\ LET answer == (kind = "alias")
       IN  /\ calls' = [calls EXCEPT ![p] = Append(@,
                           Call("exists_alias", [name |-> "es_index"], Bool(answer)))]
           /\ pc' = [pc EXCEPT ![p] = AfterExistsAlias(answer)]
           /\ is_alias' = [is_alias EXCEPT ![p] = AliasFlag(answer)]
    /\ UNCHANGED <<backend, cls, cfg, op, ret, log, hist, nwrites>>

BootExists(p) ==
    /\ pc[p] = "exists"
    /\ calls' = [calls EXCEPT ![p] = Append(@,
                    Call("exists", [index |-> "es_index"], Bool(kind # "none")))]
    /\ pc' = [pc EXCEPT ![p] = AfterExists(kind # "none")]
    /\ UNCHANGED <<backend, cls, cfg, is_alias, op, ret, log, hist, nwrites>>

\* indices.create of instance p: the index is created, or it exists by now
\* and the backend answers resource_already_exists_exception
BootCreate(p) ==
    /\ pc[p] = "create"
    /\ calls' = [calls EXCEPT ![p] = Append(@,
                    Call("create", [index |-> "es_index", body |-> Mapping],
                         IF kind = "none" THEN "ok" ELSE "BadRequestError"))]
    /\ IF kind = "none"
       THEN /\ kind' = "index"
            /\ members' = {1}
            /\ write_index' = 1
            /\ pc' = [pc EXCEPT ![p] = "ready"]
            /\ ret' = [ret EXCEPT ![p] = None]
       ELSE /\ pc' = [pc EXCEPT ![p] = "failed"]
            /\ ret' = [ret EXCEPT ![p] = Raise("BadRequestError")]
            /\ UNCHANGED <<kind, members, write_index>>
    /\ UNCHANGED <<docs, visible, pending, cls, cfg, is_alias, op, log, hist, nwrites>>

BootPutMapping(p) ==
    /\ pc[p] = "put_mapping"
    /\ calls' = [calls EXCEPT ![p] = Append(@,
                    Call("put_mapping",
                         [index |-> "es_index", body |-> Mapping.mappings], "ok"))]
    /\ pc' = [pc EXCEPT ![p] = "ready"]
    /\ ret' = [ret EXCEPT ![p] = None]
    /\ UNCHANGED <<backend, cls, cfg, is_alias, op, log, hist, nwrites>>

NextBoot ==
    \E p \in Constructors :
        \/ BootPing(p)
        \/ BootExistsAlias(p)
        \/ BootExists(p)
        \/ BootCreate(p)
        \/ BootPutMapping(p)

SpecBoot == InitBoot /\ [][NextBoot]_vars

\* an instance of either class on the name
InitAny == Init \/ InitStore

NextAny == Next \/ NextStore

SpecAny == InitAny /\ [][NextAny]_vars

----------------------------------------------------------------------------
(* Properties of ElasticsearchCache *)

\* the id of the (prompt, llm_string) the last call was about
OpKey == Key(op.args[1], op.args[2])

LookupDone == op.name = "lookup"

\* the instance works on a concrete index and knows it
IndexMode == is_alias = FALSE /\ kind = "index"

\* the members of the target that hold a document of this id
Holders(id) == {m \in TargetIndices : docs[m][id] # NoDoc}

Greatest(S) == CHOOSE m \in S : \A x \in S : x <= m

\* C1: on a concrete index (is_alias = false), a lookup(prompt, llm_string)
\* that follows update(prompt, llm_string, R), with no update of that key and
\* no clear in between, returns a list equal to R item by item, in R's order.
C1_RoundTripOnIndex ==
    (LookupDone /\ IndexMode /\ hist[OpKey].st = "written")
        => ret = Value(hist[OpKey].val)

C1_Witness ==
    /\ LookupDone /\ IndexMode
    /\ hist[OpKey].st = "written"
    /\ hist[OpKey].val = <<"G2", "G1">>
    /\ ret = Value(<<"G2", "G1">>)

\* C2: in alias mode (is_alias = true), when one or more member indices hold
\* a document whose id is the fingerprint, lookup returns the output list of
\* the document of the lexicographically greatest index name among the
\* members that hold it, whatever the order of the hits.
C2_AliasTieBreak ==
    (LookupDone /\ is_alias = TRUE /\ Holders(OpKey) # {})
        => ret = Value(LoadOutput(
                    Hit(Greatest(Holders(OpKey)), OpKey,
                        docs[Greatest(Holders(OpKey))][OpKey], {"llm_output"})))

\* C3: after two successive updates of one (prompt, llm_string), with R1 and
\* then with R2, and no clear in between, a later lookup returns R2: on a
\* concrete index, and in alias mode whatever the members of the alias and
\* whichever of them accepts the writes.
C3_LastWriteWins ==
    (/\ LookupDone
     /\ IndexMode \/ is_alias = TRUE
     /\ hist[OpKey].st = "written"
     /\ hist[OpKey].n = 2)
        => ret = Value(hist[OpKey].val)

\* an mget that returned, its keys and the ids it derived from them
MgetDone == op.name = "mget" /\ ret.tag = "value"

MgetKeys == op.args[1]

MgetId(i) == StoreKey(cfg, MgetKeys[i])

\* C4: for every key sequence, mget returns at position i the vector last
\* stored by mset for keys[i], or None when keys[i] was never stored or was
\* deleted; the positions follow the order of the input keys, in index mode
\* and in alias mode.
C4_MgetByPosition ==
    MgetDone =>
        /\ Len(ret.val) = Len(MgetKeys)
        /\ \A i \in 1..Len(MgetKeys) :
              /\ hist[MgetId(i)].st = "written"
                    => ret.val[i] = Value(hist[MgetId(i)].val)
              /\ hist[MgetId(i)].st \in {"never", "deleted"}
                    => ret.val[i] = None

\* C5: for every key sequence, also one whose keys are empty strings, mget
\* returns a list with as many entries as keys; when and only when keys is
\* empty it returns the empty list without any backend call.
C5_MgetLength ==
    MgetDone =>
        /\ Len(ret.val) = Len(MgetKeys)
        /\ (MgetKeys = <<>>) <=> (calls = <<>>)

\* C6: lookup for a fingerprint that no document carries returns None and
\* raises nothing: in index mode when get answers "not found", in alias mode
\* when the search reports zero hits.
C6_MissIsNone ==
    LookupDone =>
        /\ (is_alias = FALSE /\ calls[1].resp = "NotFoundError"
              /\ EsGet(OpKey, {"llm_output"}) = Raise("NotFoundError"))
             => ret = None
        /\ (is_alias = TRUE
              /\ \A resp \in EsSearch({OpKey}, DefaultSize, {"llm_output"}) :
                    resp.total = 0)
             => ret = None
        /\ (Holders(OpKey) = {} /\ (is_alias = TRUE \/ Cardinality(members) = 1))
             => ret = None

C6_Witness ==
    /\ LookupDone /\ ret = None
    /\ Holders(OpKey) = {}
    /\ \E id \in CacheIds : Holders(id) # {}

\* C7: after clear() returns, lookup returns None for every (prompt,
\* llm_string) stored by an update completed before the clear, until that key
\* is updated again, in index mode and in alias mode.
C7_ClearEmpties ==
    (LookupDone /\ hist[OpKey].st = "cleared") => ret = None

----------------------------------------------------------------------------
(* Properties of the construction *)

Constructing == op.name = "__init__"

LastCall == calls[Len(calls)]

\* the constructor issued a further backend call in this step
Issues(api) ==
    /\ Constructing' /\ Len(calls') = Len(calls) + 1
    /\ calls'[Len(calls')].api = api

\* C11: update issues exactly one index call, with index = the configured
\* target, id = the derived key, body = the built document, require_alias =
\* the instance's is_alias and refresh = true.
C11_UpdateCall ==
    op.name = "update" =>
        \E now \in Timestamps :
            calls = <<Call("index",
                           [index |-> "es_index",
                            id |-> OpKey,
                            body |-> build_document(cfg, op.args[1], op.args[2],
                                                    op.args[3], now),
                            require_alias |-> is_alias,
                            refresh |-> TRUE],
                           "ok")>>

\* a mset or mdelete whose bulk call reported failed actions
BulkFailed ==
    /\ op.name \in {"mset", "mdelete"}
    /\ calls # <<>> /\ calls[1].resp = "BulkIndexError"

\* C12: whenever the bulk call of mset or of mdelete reports a failed action,
\* the operation logs the reason of the first failed action, for an index
\* action and for a delete action alike, and raises the bulk error; it never
\* returns normally then.
C12_BulkFailureLogged ==
    BulkFailed =>
        /\ ret.tag = "raise" /\ ret.val[1] = "BulkIndexError"
        /\ ret.val[2][1].reason # NoReason =>
              log = <<"First bulk error reason: " \o ret.val[2][1].reason>>

\* what mget can observe of a document: its vector, or None without one
Vec(doc) == IF doc = NoDoc THEN None ELSE Value(doc.vector_dump)

VecView(d) == [m \in Indices |-> [id \in StoreIds |-> Vec(d[m][id])]]

\* the same call made once more in the present state: the documents it
\* leaves, in the realtime view and in the refreshed view
AgainDocs(actions) == BulkApply(actions, 1, docs, is_alias, 0).docs

AgainVisible(actions) ==
    IF actions = <<>> THEN visible
    ELSE [visible EXCEPT ![WriteTarget] = AgainDocs(actions)[WriteTarget]]

Idempotent(actions) ==
    /\ VecView(AgainDocs(actions)) = VecView(docs)
    /\ VecView(AgainVisible(actions)) = VecView(visible)

\* C13: mset called twice in a row with the same pairs, or mdelete twice in a
\* row with the same keys, leaves the backend in the same mget-observable
\* state, for every key, as the one call: in the state a returned mset or
\* mdelete leaves, the same call once more changes no vector.
C13_BulkIdempotent ==
    /\ (op.name = "mset" /\ ret = None) =>
          \A now \in Timestamps : Idempotent(MsetActions(cfg, op.args[1], now))
    /\ (op.name = "mdelete" /\ ret = None) =>
          Idempotent(MdeleteActions(cfg, op.args[1]))

C13_Witness ==
    /\ op.name = "mdelete" /\ ret = None
    /\ Len(op.args[1]) = 2
    /\ hist[StoreKey(cfg, op.args[1][1])].st = "deleted"
    /\ kind = "alias" /\ is_alias

\* a step that is a call of mset([]) or of mdelete([])
EmptyBulkStep ==
    /\ nwrites' # nwrites
    /\ op'.name \in {"mset", "mdelete"}
    /\ op'.args[1] = <<>>

C14_Step ==
    EmptyBulkStep =>
        /\ Len(calls') = 1
        /\ calls'[1].api = "bulk"
        /\ calls'[1].kwargs.actions = <<>>
        /\ ret' = None
        /\ docs' = docs /\ visible' = visible /\ pending' = pending

\* C14: mset([]) and mdelete([]) each issue exactly one bulk call, carrying
\* zero actions, and leave every stored document unchanged.
C14_EmptyBulk == [][C14_Step]_vars

C14_Witness ==
    /\ op.name = "mdelete" /\ op.args[1] = <<>>
    /\ calls = BulkCalls([actions |-> <<>>, index |-> "es_index",
                          require_alias |-> is_alias, refresh |-> TRUE], "ok")
    /\ \E m \in TargetIndices, id \in StoreIds : docs[m][id] # NoDoc

\* C15: after mdelete(keys) returned without error, mget(keys) returns None
\* at every position until one of the keys is set again, in index mode and in
\* alias mode, however the documents are spread over the alias's members.
C15_DeletedIsNone ==
    (/\ MgetDone
     /\ MgetKeys # <<>>
     /\ \A i \in 1..Len(MgetKeys) : hist[MgetId(i)].st = "deleted")
        => ret.val = [i \in 1..Len(MgetKeys) |-> None]

\* C16: with an injective digest, the key of (prompt, llm_string) equals the
\* key of (prompt', llm_string') exactly when the pairs are equal; so a lookup
\* never returns a record stored under a different (prompt, llm_string) pair.
C16_KeyInjective ==
    LookupDone =>
        /\ \A r \in Requests :
              (Key(r[1], r[2]) = OpKey) <=> (r = <<op.args[1], op.args[2]>>)
        /\ ret.tag = "value" =>
              \A m \in TargetIndices :
                  docs[m][OpKey] # NoDoc =>
                      /\ docs[m][OpKey].llm_input = op.args[1]
                      /\ docs[m][OpKey].llm_params = op.args[2]

\* C17: with an injective digest, two stores on one target whose namespaces
\* differ (one of them possibly without namespace) never derive the same key,
\* whatever their item keys; so mget in one namespace never returns a vector
\* that was mset under another namespace or under none.
C17_NamespacesDisjoint ==
    MgetDone =>
        \A i \in 1..Len(MgetKeys) :
            /\ \A c \in StoreConfigs, k \in ItemKeys :
                  c.namespace # cfg.namespace => StoreKey(c, k) # MgetId(i)
            /\ ret.val # <<>> /\ ret.val[i] # None =>
                  \A m \in TargetIndices :
                      docs[m][MgetId(i)] # NoDoc =>
                          docs[m][MgetId(i)].llm_input = MgetKeys[i]

\* C18: yield_keys fails with NotImplementedError for every prefix, given or
\* omitted, in every state of the store; it never returns a sequence and
\* issues no backend call.
C18_YieldKeysRaises ==
    op.name = "yield_keys" =>
        /\ ret = Raise("NotImplementedError")
        /\ calls = <<>>

C18_Witness ==
    /\ op.name = "yield_keys" /\ op.args = <<"None">>
    /\ ret.tag = "raise"
    /\ \E m \in TargetIndices, id \in StoreIds : docs[m][id] # NoDoc

\* the fields the settings of the instance ask for, besides the payload
OptionalFields ==
    (IF cfg.store_input THEN {"llm_input"} ELSE {})
    \cup (IF cfg.store_timestamp THEN {"timestamp"} ELSE {})
    \cup (IF cls = "cache" /\ cfg.store_input_params THEN {"llm_params"} ELSE {})
    \cup (IF cfg.metadata # NoMeta THEN {"metadata"} ELSE {})

Payload == IF cls = "cache" THEN "llm_output" ELSE "vector_dump"

\* C19: the document built for a write always contains the payload field
\* (llm_output for the cache, vector_dump for the store) and each optional
\* field exactly when its setting is enabled: the input iff store_input, the
\* timestamp iff store_timestamp, the parameters iff store_input_params (cache
\* only), the metadata iff a metadata object was configured; and no other field.
C19_DocumentFields ==
    op.name = "build_document" =>
        DOMAIN ret.val = {Payload} \cup OptionalFields

C19_Witness ==
    /\ op.name = "build_document" /\ cls = "cache"
    /\ cfg.store_input /\ ~cfg.store_input_params /\ ~cfg.store_timestamp
    /\ cfg.metadata = Meta
    /\ DOMAIN ret.val = {"llm_output", "llm_input", "metadata"}

\* both updates of the race have returned
BothReturned == \A w \in Writers : pc[w] = "returned"

\* the result list of the update whose index call was applied last
LastApplied == op[calls[Len(calls)].by].args[3]

\* C20: under every interleaving of two cache instances that update the same
\* (prompt, llm_string) on one concrete index with different lists, once both
\* updates have returned every lookup returns the list whose index call the
\* backend applied last, in full: no mixture, no partial list, no miss.
C20_RaceLastApplied ==
    (/\ BothReturned
     /\ op[Reader].name = "lookup"
     /\ op[Reader].args = <<op[1].args[1], op[1].args[2]>>)
        => ret[Reader] = Value(LastApplied)

C20_Witness ==
    /\ BothReturned
    /\ calls[1].by = 2 /\ calls[2].by = 1
    /\ op[Reader].name = "lookup"
    /\ ret[Reader] = Value(op[1].args[3])

\* the vector the returned msets have left for an id: what one mset of the
\* last batch that returns leaves, on top of the earlier ones
HistVec(id) == IF hist[id].st = "written" THEN Value(hist[id].val) ELSE None

\* after an mset that returned, the write index holds for every id the vector
\* of the returned msets, in the realtime and in the refreshed view
C21_AfterSuccess ==
    (op.name = "mset" /\ ret = None) =>
        \A id \in StoreIds :
            /\ Vec(docs[WriteTarget][id]) = HistVec(id)
            /\ Vec(visible[WriteTarget][id]) = HistVec(id)

\* an mget of keys none of which a failed mset has left open returns those
\* vectors
C21_Observed ==
    (/\ MgetDone /\ any(MgetKeys)
     /\ \A i \in 1..Len(MgetKeys) : hist[MgetId(i)].st # "unknown")
        => ret = Value([i \in 1..Len(MgetKeys) |-> HistVec(MgetId(i))])

\* a step that is an mset that raised: every key of the batch holds the vector
\* it held before, or none as before, or a vector the batch pairs with it
C21_FailedStep ==
    (nwrites' # nwrites /\ op'.name = "mset" /\ ret'.tag = "raise") =>
        \A i \in 1..Len(op'.args[1]) :
            LET key == op'.args[1][i][1]
                id == StoreKey(cfg, key)
            IN  \A m \in Indices :
                  Vec(docs'[m][id]) \in
                     {Vec(docs[m][id])} \cup
                     (IF m = WriteTarget
                      THEN {Value(op'.args[1][j][2]) :
                              j \in {x \in 1..Len(op'.args[1]) : op'.args[1][x][1] = key}}
                      ELSE {})

\* C21: after an mset that fails part-way every key of the batch holds the
\* vector it held before the call (or none) or the new vector of the batch,
\* never anything else; and re-running the same mset until it succeeds leaves
\* the same mget-observable state as one successful mset of that batch.
C21_PartialThenRetry ==
    /\ [][C21_FailedStep]_vars
    /\ [](C21_AfterSuccess /\ C21_Observed)

\* an mget that reads both keys of a batch of two whose mset returned at the
\* second attempt only
C21_Witness ==
    /\ MgetDone /\ nwrites = 2
    /\ Len(MgetKeys) = 2 /\ MgetKeys[1] # MgetKeys[2]
    /\ \A i \in 1..2 : hist[MgetId(i)].st = "written" /\ hist[MgetId(i)].n = 1
    /\ kind = "alias" /\ members = Indices

\* the backend calls of the last operation are exactly one call of this API
OneCall(api) == Len(calls) = 1 /\ calls[1].api = api

\* C22: each public operation issues at most one backend data call per
\* invocation and never re-issues a call after it failed: lookup one get
\* (index mode) or one search (alias mode); update one index call and no read
\* before it; clear one delete_by_query; mget one multi-get or one search (or
\* none); mset and mdelete one bulk call each.
C22_OneCallEach ==
    /\ Len(calls) <= 1
    /\ op.name = "lookup" => OneCall(IF is_alias THEN "search" ELSE "get")
    /\ op.name = "update" => OneCall("index")
    /\ op.name = "clear" => OneCall("delete_by_query")
    /\ (op.name = "mget" /\ calls # <<>>) =>
          OneCall(IF is_alias THEN "search" ELSE "mget")
    /\ op.name \in {"mset", "mdelete"} => OneCall("bulk")

\* an mset whose bulk call failed, and was not sent again
C22_Witness ==
    /\ op.name = "mset" /\ ret.tag = "raise"
    /\ Len(calls) = 1 /\ Raised(calls[1])

\* the stored output list a lookup of this key hits: the one document of a
\* concrete index, the document of the greatest member index of an alias
StoredOutput == docs[Greatest(Holders(OpKey))][OpKey].llm_output

\* C23: lookup on a hit either returns a list with exactly as many items as
\* the stored output list, item i being the deserialization of stored entry
\* i, or raises an error when some stored entry cannot be deserialized; it
\* never returns a shorter list that omits the entries that failed.
C23_AllOrError ==
    (LookupDone /\ Holders(OpKey) # {}) =>
        IF \A i \in 1..Len(StoredOutput) : Loadable(StoredOutput[i])
        THEN ret = Value([i \in 1..Len(StoredOutput) |-> loads(StoredOutput[i])])
        ELSE ret.tag = "raise"

\* a hit on a list of two entries, the second of which does not deserialize
C23_Witness ==
    /\ LookupDone /\ Holders(OpKey) # {}
    /\ Len(StoredOutput) = 2
    /\ Loadable(StoredOutput[1]) /\ ~Loadable(StoredOutput[2])
    /\ ret.tag = "raise"

\* an mget that went through the search of alias mode
MgetOnAlias == MgetDone /\ is_alias /\ kind = "alias" /\ any(MgetKeys)

\* the member indices whose refreshed view holds a document of this id
SearchHolders(id) == {m \in TargetIndices : visible[m][id] # NoDoc}

\* C24: in alias mode, mget returns a non-empty vector for every requested
\* key whose document is held by at least one member index of the alias, also
\* when some of the requested ids are held by more than one member index.
C24_AliasMgetFindsAll ==
    MgetOnAlias =>
        \A i \in 1..Len(MgetKeys) :
            SearchHolders(MgetId(i)) # {} => ret.val[i] # None

\* C25: in alias mode, when several member indices hold a document for the
\* same derived id, mget returns for that key the vector of the document of
\* the lexicographically greatest index name, whatever the order of the hits.
C25_AliasMgetTieBreak ==
    MgetOnAlias =>
        \A i \in 1..Len(MgetKeys) :
            (Cardinality(SearchHolders(MgetId(i))) > 1 /\ ret.val[i] # None) =>
                ret.val[i] = Vec(visible[Greatest(SearchHolders(MgetId(i)))][MgetId(i)])

\* the create calls of the two constructors that the backend accepted
Created ==
    {<<p, i>> \in Constructors \X (1..5) :
        /\ i <= Len(calls[p])
        /\ calls[p][i].api = "create" /\ calls[p][i].resp = "ok"}

\* C26: when two instances are constructed concurrently against the same
\* reachable backend and the same target name that is initially neither an
\* alias nor an index, under every interleaving of their backend calls both
\* constructions complete without error and the target index is created
\* exactly once.
C26_ConcurrentConstruction ==
    /\ \A p \in Constructors : ret[p].tag # "raise"
    /\ Cardinality(Created) <= 1
    /\ (\A p \in Constructors : pc[p] = "ready") => Cardinality(Created) = 1

\* C27: in alias mode, a lookup(prompt, llm_string) that starts after
\* update(prompt, llm_string, R) has returned, with no other write or clear in
\* between, returns R: the write is visible to the search-based read as soon
\* as update returns.
C27_AliasReadYourWrite ==
    (/\ LookupDone
     /\ is_alias /\ kind = "alias"
     /\ hist[OpKey].st = "written" /\ hist[OpKey].n = 1)
        => ret = Value(hist[OpKey].val)

\* the ids derived from the inputs of the operation a step has run
OwnIds ==
    CASE op'.name = "update" -> {Key(op'.args[1], op'.args[2])}
      [] op'.name = "mset" ->
            {StoreKey(cfg, op'.args[1][i][1]) : i \in 1..Len(op'.args[1])}
      [] op'.name = "mdelete" ->
            {StoreKey(cfg, op'.args[1][i]) : i \in 1..Len(op'.args[1])}
      [] OTHER -> {}

C28_Step ==
    /\ op'.name \in {"lookup", "mget", "yield_keys"} =>
          docs' = docs /\ visible' = visible
    /\ op'.name \in {"update", "mset", "mdelete"} =>
          \A m \in Indices, id \in AllIds \ OwnIds : docs'[m][id] = docs[m][id]

\* C28: every operation changes only the documents whose id is a key derived
\* from its own inputs: lookup, mget and yield_keys change no document at
\* all; update changes only the document of its (prompt, llm_string); mset
\* and mdelete change only the documents of the keys they were given; the
\* document of every other id keeps its content.
C28_Frame == [][C28_Step]_vars

\* an mdelete of one key that returned, next to a document of another key
C28_Witness ==
    /\ op.name = "mdelete" /\ ret = None
    /\ Len(op.args[1]) = 1
    /\ docs[WriteTarget][StoreKey(cfg, op.args[1][1])] = NoDoc
    /\ \E id \in StoreIds : docs[WriteTarget][id] # NoDoc

C8_State ==

    Constructing =>
        /\ \A i \in 1..Len(calls) :
              /\ (calls[i].api = "ping" /\ calls[i].resp = "False")
                    => /\ Len(calls) = 1
                       /\ pc = "failed"
                       /\ ret = Raise("ConnectionError")
              /\ Raised(calls[i])
                    => /\ i = Len(calls)
                       /\ pc = "failed"
                       /\ ret = Raise(calls[i].resp)
        /\ \A i, j \in 1..Len(calls) : i # j => calls[i].api # calls[j].api
        /\ pc = "failed" => ret.tag = "raise"

C8_Step ==
    pc = "failed" =>
        \/ pc' = "failed" /\ calls' = calls
        \/ pc' = "ping" /\ calls' = <<>>

\* C8: construction aborts at the first failing step.  When ping reports the
\* backend unreachable the constructor raises a connection error and issues
\* no exists_alias, exists, create or put_mapping; when exists_alias, exists,
\* create or put_mapping raises, the constructor raises that error, issues no
\* later provisioning step and repeats no call, and no object is returned
\* (nothing follows the failure but a new construction by the caller).
C8_AbortAtFirstFailure == []C8_State /\ [][C8_Step]_vars

C8_Witness ==
    /\ Constructing /\ pc = "failed"
    /\ Len(calls) = 3
    /\ LastCall.api = "exists" /\ Raised(LastCall)

Provisioning == {"create", "put_mapping"}

C9_State ==
    (Constructing /\ pc = "ready") =>
        /\ LastCall.api \in Provisioning
        /\ \A i \in 1..(Len(calls) - 1) : calls[i].api \notin Provisioning
        /\ LastCall.api = "create" => LastCall.kwargs.body = Mapping
        /\ LastCall.api = "put_mapping" => LastCall.kwargs.body = Mapping.mappings

C9_Step ==
    /\ Issues("create") => kind = "none"
    /\ Issues("put_mapping") => kind \in {"index", "alias"}
    /\ (Constructing' /\ pc' = "ready" /\ pc # "ready")
          => (kind = "none" <=> calls'[Len(calls')].api = "create")
    /\ Constructing' => docs' = docs

\* C9: on a reachable backend, construction issues create with the declared
\* schema exactly when the target name is neither an alias nor an index, and
\* then no put_mapping; it issues put_mapping with the declared schema
\* exactly when the target exists as an alias or as an index, and then no
\* create; in neither case is a stored document changed or removed.
C9_CreateOrReconcile == []C9_State /\ [][C9_Step]_vars

C9_Witness ==
    /\ Constructing /\ pc = "ready"
    /\ LastCall.api = "put_mapping"
    /\ \E m \in TargetIndices, id \in AllIds : docs[m][id] # NoDoc

C10_State ==
    pc = "ready" =>
        /\ Constructing =>
              \E i \in 1..Len(calls) :
                  /\ calls[i].api = "exists_alias"
                  /\ is_alias = (calls[i].resp = "True")
        /\ ~Constructing =>
              \A i \in 1..Len(calls) : calls[i].api \notin {"exists_alias", "exists"}

C10_Step == (pc = "ready" /\ pc' = "ready") => is_alias' = is_alias

\* C10: after a successful construction is_alias equals the answer that
\* exists_alias gave during it, and no later operation of the instance
\* changes is_alias or issues exists_alias or exists again, also when the
\* topology of the backend changes afterwards.
C10_AliasFlagFixed == []C10_State /\ [][C10_Step]_vars

C10_Witness ==
    /\ pc = "ready" /\ LookupDone
    /\ is_alias = FALSE /\ kind = "alias"

====
